---- MODULE Spec2Model ----
(***************************************************************************)
(* Model of the EBS past-paper downloader (src/ebs_downloader.py) and of   *)
(* the file renamer (src/name_changer.py).                                 *)
(*                                                                         *)
(* Text is modelled as a sequence of characters.  A character is a string  *)
(* of the model; the characters outside ASCII are written by name:         *)
(*   "nyeon" U+B144 (year marker)      "nbsp" U+00A0 (no-break space)      *)
(*   "RN1" U+2160, "RN2" U+2161 (Roman numerals one and two)              *)
(*   "mul" "ri" "hak" "hwa" "saeng" "myeong" "gwa" "ji" "gu" (the Hangul   *)
(*   syllables of the subject names), "gi" "ta" (the year sentinel),       *)
(*   "mok" (with "gwa": the subject sentinel), "je" "mi" "sang" (with      *)
(*   "mok": the title sentinel), "hae" (the solution suffix),              *)
(*   "wol" U+C6D4 (month marker), "seol" (with "hae": the word solution).  *)
(***************************************************************************)
EXTENDS Integers, Sequences, FiniteSets, TLC

VARIABLES
    pc,        \* position of main(): "idle" when main is not the program run
    backend,   \* the scripted catalogue backend: page number -> response
    args,      \* the parsed command line (pageIndex, base, out)
    html,      \* r.text of the catalogue response
    items,     \* the records parse_list_items returned
    idx,       \* index in items of the record the download loop is at
    cur,       \* urls and target paths derived for the current record
    fetched,   \* the page numbers of the catalogue requests issued, in order
    attempts,  \* the download_file calls made, in order, with their outcome
    log,       \* the diagnostic lines printed, in order
    call,      \* position of a single function called on its own
    arg,       \* its argument
    ret        \* its result

vars == <<pc, backend, args, html, items, idx, cur, fetched, attempts, log,
          call, arg, ret>>

mainVars == <<pc, backend, args, html, items, idx, cur, fetched, attempts, log>>

(***************************************************************************)
(* Bounds of the model.                                                    *)
(***************************************************************************)
MaxLen == 4

MaxYearChunks == 5

MaxTitleChunks == 3

MaxRefChunks == 3

MaxNodes == 2

MaxPages == 4

(***************************************************************************)
(* Python's None: a text of one character that is no character of a text. *)
(***************************************************************************)
None == <<"None">>

(***************************************************************************)
(* Character classes.                                                      *)
(***************************************************************************)
\* str.isspace / the regex class \s on the characters of the model
Whitespace == {" ", "\t", "\n", "nbsp"}

\* the regex class \d
Digit == {"0", "1", "2", "3", "4", "5", "6", "7", "8", "9"}

\* the character class [\\/:*?"<>|] of sanitize_filename
Forbidden == {"\\", "/", ":", "*", "?", "\"", "<", ">", "|"}

(***************************************************************************)
(* String helpers: the str methods the source uses.                        *)
(***************************************************************************)
RECURSIVE LStripSet(_, _)
\* str.lstrip(chars): drop the leading characters that are in chars
LStripSet(s, chars) ==
    IF s # <<>> /\ Head(s) \in chars THEN LStripSet(Tail(s), chars) ELSE s

RECURSIVE RStripSet(_, _)
\* str.rstrip(chars)
RStripSet(s, chars) ==
    IF s # <<>> /\ s[Len(s)] \in chars
    THEN RStripSet(SubSeq(s, 1, Len(s) - 1), chars)
    ELSE s

\* str.strip(chars)
StripSet(s, chars) == RStripSet(LStripSet(s, chars), chars)

\* str.strip()
Strip(s) == StripSet(s, Whitespace)

\* str.startswith(prefix)
StartsWith(s, prefix) ==
    Len(s) >= Len(prefix) /\ SubSeq(s, 1, Len(prefix)) = prefix

\* sub in s, for a non-empty sub
Contains(s, sub) ==
    \E i \in 1..(Len(s) - Len(sub) + 1) : SubSeq(s, i, i + Len(sub) - 1) = sub

(***************************************************************************)
(* sanitize_filename                                                       *)
(***************************************************************************)
RECURSIVE ReplaceForbidden(_)
\* re.sub(r'[\\/:*?"<>|]', ' ', name)
ReplaceForbidden(s) ==
    IF s = <<>> THEN <<>>
    ELSE <<IF Head(s) \in Forbidden THEN " " ELSE Head(s)>>
         \o ReplaceForbidden(Tail(s))

RECURSIVE CollapseWhitespace(_)
\* re.sub(r'\s+', ' ', name): every maximal run of whitespace becomes one space
CollapseWhitespace(s) ==
    IF s = <<>> THEN <<>>
    ELSE IF Head(s) \in Whitespace
         THEN <<" ">> \o CollapseWhitespace(LStripSet(s, Whitespace))
         ELSE <<Head(s)>> \o CollapseWhitespace(Tail(s))

\* a plausible slip: the whitespace is collapsed but the result is not trimmed
sanitize_filename_untrimmed(name) == CollapseWhitespace(ReplaceForbidden(name))

sanitize_filename(name) == Strip(CollapseWhitespace(ReplaceForbidden(name)))

(***************************************************************************)
(* Strings of bounded length over an alphabet.                             *)
(***************************************************************************)
StringsUpTo(alphabet, n) == UNION {[1..k -> alphabet] : k \in 0..n}

\* main() is not running while a single function is exercised
MainIdle ==
    /\ pc = "idle"
    /\ backend = <<>>
    /\ args = None
    /\ html = None
    /\ items = <<>>
    /\ idx = 0
    /\ cur = None
    /\ fetched = <<>>
    /\ attempts = <<>>
    /\ log = <<>>

(***************************************************************************)
(* sanitize_filename called on its own, and then again on its result.      *)
(***************************************************************************)
SanitizeAlphabet == {"a", "/", ":", " ", "\t", "*"}

\* 'a/b:c*d', the example of the specification
SanitizeExample == <<"a", "/", "b", ":", "c", "*", "d">>

SanitizeInputs == StringsUpTo(SanitizeAlphabet, MaxLen) \cup {SanitizeExample}

InitSanitize ==
    /\ MainIdle
    /\ call = "sanitize"
    /\ arg \in SanitizeInputs
    /\ ret = None

Sanitize ==
    /\ call = "sanitize"
    /\ ret' = sanitize_filename(arg)
    /\ call' = "sanitized"
    /\ UNCHANGED <<arg, mainVars>>

SanitizeAgain ==
    /\ call = "sanitized"
    /\ ret' = sanitize_filename(ret)
    /\ call' = "resanitized"
    /\ UNCHANGED <<arg, mainVars>>

NextSanitize == Sanitize \/ SanitizeAgain

SpecSanitize == InitSanitize /\ [][NextSanitize]_vars

\* the three properties of a sanitised name, and the example of the specification
SanitizeClean ==
    call \in {"sanitized", "resanitized"} =>
        /\ \A i \in 1..Len(ret) : ret[i] \notin Forbidden
        /\ \A i \in 1..(Len(ret) - 1) :
              ~(ret[i] \in Whitespace /\ ret[i + 1] \in Whitespace)
        /\ ret # <<>> => (ret[1] \notin Whitespace /\ ret[Len(ret)] \notin Whitespace)
        /\ (arg = SanitizeExample) => ret = <<"a", " ", "b", " ", "c", " ", "d">>

\* C10: the result of sanitize_filename holds no forbidden character, no two
\* adjacent whitespace characters and no leading or trailing whitespace,
\* sanitize('a/b:c*d') = "a b c d", and sanitising a sanitised name again
\* changes nothing.
C10_Sanitize ==
    /\ []SanitizeClean
    /\ [][call = "sanitized" => ret' = ret]_vars

\* a name with leading whitespace, a forbidden character and trailing
\* whitespace has been sanitised twice
C10_Witness ==
    /\ call = "resanitized"
    /\ arg = <<" ", "a", "/", "\t">>
    /\ ret = <<"a">>

(***************************************************************************)
(* Texts built from chunks: the titles are too long to enumerate character *)
(* by character.                                                           *)
(***************************************************************************)
RECURSIVE Flatten(_)
Flatten(chunks) ==
    IF chunks = <<>> THEN <<>> ELSE Head(chunks) \o Flatten(Tail(chunks))

ChunkTexts(chunkSet, n) ==
    {Flatten(cs) : cs \in UNION {[1..k -> chunkSet] : k \in 0..n}}

(***************************************************************************)
(* extract_year                                                            *)
(***************************************************************************)
\* the sentinel "gi ta" (other)
YearSentinel == <<"gi", "ta">>

AllDigits(s) == \A i \in 1..Len(s) : s[i] \in Digit

Min(S) == CHOOSE m \in S : \A n \in S : m <= n

\* the positions at which the pattern (\d{4})\s*<nyeon> matches
YearMatches(title) ==
    {i \in 1..(Len(title) - 4) :
        /\ AllDigits(SubSeq(title, i, i + 3))
        /\ StartsWith(LStripSet(SubSeq(title, i + 4, Len(title)), Whitespace),
                      <<"nyeon">>)}

\* a plausible slip: the pattern without \s*, the marker right after the digits
extract_year_adjacent(title) ==
    LET m == {i \in 1..(Len(title) - 4) :
                 AllDigits(SubSeq(title, i, i + 3)) /\ title[i + 4] = "nyeon"}
    IN  IF m = {} THEN YearSentinel ELSE SubSeq(title, Min(m), Min(m) + 3)

\* re.search finds the leftmost match; group(1) is its four digits
extract_year(title) ==
    LET m == YearMatches(title)
    IN  IF m = {} THEN YearSentinel ELSE SubSeq(title, Min(m), Min(m) + 3)

(***************************************************************************)
(* extract_year called on its own.                                         *)
(***************************************************************************)
YearChunks ==
    {<<"2", "0", "2", "4">>, <<"2", "0", "2", "3">>, <<"1">>, <<"nyeon">>,
     <<" ">>, <<"a">>}

YearInputs == ChunkTexts(YearChunks, MaxYearChunks)

InitYear ==
    /\ MainIdle
    /\ call = "year"
    /\ arg \in YearInputs
    /\ ret = None

ExtractYear ==
    /\ call = "year"
    /\ ret' = extract_year(arg)
    /\ call' = "year_done"
    /\ UNCHANGED <<arg, mainVars>>

NextYear == ExtractYear

SpecYear == InitYear /\ [][NextYear]_vars

\* the positions of a 4-digit run with the year marker right after it
AdjacentYears(title) ==
    {i \in 1..(Len(title) - 4) :
        AllDigits(SubSeq(title, i, i + 3)) /\ title[i + 4] = "nyeon"}

\* the positions of a 4-digit run with the year marker after it, only
\* whitespace (possibly none) in between
SpacedYear(title, i) ==
    /\ i + 4 <= Len(title)
    /\ \A k \in i..(i + 3) : title[k] \in Digit
    /\ \E j \in (i + 4)..Len(title) :
          /\ title[j] = "nyeon"
          /\ \A k \in (i + 4)..(j - 1) : title[k] \in Whitespace

\* C8, as claimed: the year is the first 4-digit run that the year marker
\* follows immediately, and the sentinel when the title holds no such run.
C8_AsClaimed ==
    call = "year_done" =>
        IF AdjacentYears(arg) # {}
        THEN ret = SubSeq(arg, Min(AdjacentYears(arg)), Min(AdjacentYears(arg)) + 3)
        ELSE ret = YearSentinel

\* C8, amended: the year is the first 4-digit run that the year marker
\* follows after optional whitespace, and the sentinel when the title holds no
\* such run; extraction always yields one of the two.
C8_Year ==
    call = "year_done" =>
        IF \E i \in 1..Len(arg) : SpacedYear(arg, i)
        THEN \E i \in 1..Len(arg) :
                /\ SpacedYear(arg, i)
                /\ \A h \in 1..(i - 1) : ~SpacedYear(arg, h)
                /\ ret = SubSeq(arg, i, i + 3)
        ELSE ret = YearSentinel

\* a title whose first year is separated from its marker by a space, and
\* whose second year is not
C8_Witness ==
    /\ call = "year_done"
    /\ arg = <<"2", "0", "2", "3", " ", "nyeon", "2", "0", "2", "4", "nyeon">>
    /\ ret = <<"2", "0", "2", "3">>

(***************************************************************************)
(* extract_subject, and the subject directory main() derives from it       *)
(***************************************************************************)
\* the sentinel "gwa mok" (subject)
SubjectSentinel == <<"gwa", "mok">>

RECURSIVE ReplaceNbsp(_)
\* title.replace("\xa0", " ")
ReplaceNbsp(s) ==
    IF s = <<>> THEN <<>>
    ELSE <<IF Head(s) = "nbsp" THEN " " ELSE Head(s)>> \o ReplaceNbsp(Tail(s))

RECURSIVE TakeToken(_)
\* the longest prefix without whitespace
TakeToken(s) ==
    IF s = <<>> \/ Head(s) \in Whitespace THEN <<>>
    ELSE <<Head(s)>> \o TakeToken(Tail(s))

RECURSIVE Split(_)
\* str.split(): the maximal runs of characters that are not whitespace
Split(s) ==
    LET t == LStripSet(s, Whitespace)
    IN  IF t = <<>> THEN <<>>
        ELSE <<TakeToken(t)>> \o Split(SubSeq(t, Len(TakeToken(t)) + 1, Len(t)))

\* a plausible slip: parts[0] for parts[-1]
extract_subject_first(title) ==
    LET parts == Split(Strip(ReplaceNbsp(title)))
    IN  IF parts # <<>> THEN parts[1] ELSE SubjectSentinel

extract_subject(title) ==
    LET parts == Split(Strip(ReplaceNbsp(title)))
    IN  IF parts # <<>> THEN parts[Len(parts)] ELSE SubjectSentinel

\* main(): subject_name = sanitize_filename(extract_subject(title))
subject_name(title) == sanitize_filename(extract_subject(title))

(***************************************************************************)
(* name_changer.py: the new name of one file of the directory              *)
(***************************************************************************)
Physics1 == <<"mul", "ri", "hak", "RN1">>
Physics2 == <<"mul", "ri", "hak", "RN2">>
Chemistry1 == <<"hwa", "hak", "RN1">>
Chemistry2 == <<"hwa", "hak", "RN2">>
Biology1 == <<"saeng", "myeong", "gwa", "hak", "RN1">>
Biology2 == <<"saeng", "myeong", "gwa", "hak", "RN2">>
Earth1 == <<"ji", "gu", "gwa", "hak", "RN1">>
Earth2 == <<"ji", "gu", "gwa", "hak", "RN2">>

\* the alternatives of the subject pattern, in its order
SubjectPattern ==
    <<Physics1, Physics2, Chemistry1, Chemistry2, Biology1, Biology2, Earth1, Earth2>>

subject_map(subject) ==
    CASE subject = Physics1 -> <<"mul", "ri", "1">>
      [] subject = Physics2 -> <<"mul", "ri", "2">>
      [] subject = Chemistry1 -> <<"hwa", "hak", "1">>
      [] subject = Chemistry2 -> <<"hwa", "hak", "2">>
      [] subject = Biology1 -> <<"saeng", "myeong", "gwa", "hak", "1">>
      [] subject = Biology2 -> <<"saeng", "myeong", "gwa", "hak", "2">>
      [] subject = Earth1 -> <<"ji", "gu", "gwa", "hak", "1">>
      [] subject = Earth2 -> <<"ji", "gu", "gwa", "hak", "2">>

\* whether sub occurs in s at position i
MatchesAt(s, i, sub) ==
    i + Len(sub) - 1 <= Len(s) /\ SubSeq(s, i, i + Len(sub) - 1) = sub

\* re.search(r"(20\d{2})", name): the positions of a match
RenameYearMatches(name) ==
    {i \in 1..(Len(name) - 3) :
        /\ name[i] = "2" /\ name[i + 1] = "0"
        /\ name[i + 2] \in Digit /\ name[i + 3] \in Digit}

\* re.search(r"(\d{1,2})wol", name): the digits of the leftmost match, greedy
RenameMonth(name) ==
    LET two == {i \in 1..(Len(name) - 2) :
                   name[i] \in Digit /\ name[i + 1] \in Digit /\ name[i + 2] = "wol"}
        one == {i \in 1..(Len(name) - 1) : name[i] \in Digit /\ name[i + 1] = "wol"}
        all == two \cup one
    IN  IF all = {} THEN <<"1", "2">>
        ELSE IF Min(all) \in two
             THEN SubSeq(name, Min(all), Min(all) + 1)
             ELSE <<"0", name[Min(all)]>>

\* the subject pattern: the leftmost position with a match, and there the
\* first alternative that matches
RenameSubjectMatches(name) ==
    {i \in 1..Len(name) :
        \E k \in 1..Len(SubjectPattern) : MatchesAt(name, i, SubjectPattern[k])}

RenameSubject(name) ==
    LET i == Min(RenameSubjectMatches(name))
        k == Min({j \in 1..Len(SubjectPattern) : MatchesAt(name, i, SubjectPattern[j])})
    IN  SubjectPattern[k]

\* "seol": with "hae", the word for solution; "mun" "je": the word for problem
RenameQtype(name) ==
    IF Contains(name, <<"_", "hae">>) \/ Contains(name, <<"hae", "seol">>)
    THEN <<"hae", "seol">>
    ELSE <<"mun", "je">>

\* the name a file is renamed to (without its extension, which is kept), or
\* None when the file is skipped
new_name(name) ==
    IF RenameYearMatches(name) = {} THEN None
    ELSE IF RenameSubjectMatches(name) = {} THEN None
    ELSE SubSeq(name, Min(RenameYearMatches(name)), Min(RenameYearMatches(name)) + 3)
         \o <<"_">> \o RenameMonth(name)
         \o <<"_">> \o subject_map(RenameSubject(name))
         \o <<"_">> \o RenameQtype(name)

(***************************************************************************)
(* The subject of one title, by the downloader and by the renamer.         *)
(***************************************************************************)
TitleChunks ==
    {Physics1, Biology2, <<"hwa", "hak">>, <<" ">>, <<"nbsp">>, <<"/">>,
     <<"2", "0", "2", "4", "nyeon">>, <<"3", "wol">>, <<"_", "hae">>}

TitleInputs == ChunkTexts(TitleChunks, MaxTitleChunks)

InitSubject ==
    /\ MainIdle
    /\ call \in {"subject", "rename"}
    /\ arg \in TitleInputs
    /\ ret = None

\* the downloader derives the subject directory of a title
ExtractSubject ==
    /\ call = "subject"
    /\ ret' = subject_name(arg)
    /\ call' = "subject_done"
    /\ UNCHANGED <<arg, mainVars>>

\* the renamer names one file of the directory, or skips it
RenameFile ==
    /\ call = "rename"
    /\ ret' = new_name(arg)
    /\ call' = "rename_done"
    /\ UNCHANGED <<arg, mainVars>>

NextSubject == ExtractSubject \/ RenameFile

SpecSubject == InitSubject /\ [][NextSubject]_vars

\* t[a..b] is the last whitespace-delimited token of t
IsLastToken(t, a, b) ==
    /\ 1 <= a /\ a <= b /\ b <= Len(t)
    /\ \A k \in a..b : t[k] \notin Whitespace
    /\ \A k \in (b + 1)..Len(t) : t[k] \in Whitespace
    /\ a = 1 \/ t[a - 1] \in Whitespace

Letters ==
    {"a", "b", "c", "d", "e", "f", "g", "h", "i", "j", "k", "l", "m", "n", "o",
     "p", "q", "r", "s", "t", "u", "v", "w", "x", "y", "z"}

\* the characters a scheme is made of
SchemeChars == Letters \cup Digit \cup {"+", "-", "."}

HttpPrefix == <<"h", "t", "t", "p", ":", "/", "/">>
HttpsPrefix == <<"h", "t", "t", "p", "s", ":", "/", "/">>

\* the schemes urljoin resolves relative references for (those of the model)
UsesRelative ==
    {<<>>, <<"h", "t", "t", "p">>, <<"h", "t", "t", "p", "s">>, <<"f", "t", "p">>}

\* the index of the first c in s, 0 when there is none
IndexOf(s, c) ==
    IF \E i \in 1..Len(s) : s[i] = c
    THEN Min({i \in 1..Len(s) : s[i] = c})
    ELSE 0

RECURSIVE SplitOn(_, _)
\* str.split(c)
SplitOn(s, c) ==
    IF IndexOf(s, c) = 0 THEN <<s>>
    ELSE <<SubSeq(s, 1, IndexOf(s, c) - 1)>>
         \o SplitOn(SubSeq(s, IndexOf(s, c) + 1, Len(s)), c)

RECURSIVE Join(_, _)
\* c.join(parts)
Join(parts, c) ==
    IF parts = <<>> THEN <<>>
    ELSE IF Len(parts) = 1 THEN parts[1]
    ELSE parts[1] \o <<c>> \o Join(Tail(parts), c)

\* urlparse(url, scheme): scheme, netloc and path
UrlParse(url, default) ==
    LET i == IndexOf(url, ":")
        hasScheme ==
            /\ i > 1
            /\ url[1] \in Letters
            /\ \A k \in 1..(i - 1) : url[k] \in SchemeChars
        rest == IF hasScheme THEN SubSeq(url, i + 1, Len(url)) ELSE url
        hasNetloc == StartsWith(rest, <<"/", "/">>)
        after == SubSeq(rest, 3, Len(rest))
        j == IndexOf(after, "/")
    IN  [scheme |-> IF hasScheme THEN SubSeq(url, 1, i - 1) ELSE default,
         netloc |-> IF ~hasNetloc THEN <<>>
                    ELSE IF j = 0 THEN after ELSE SubSeq(after, 1, j - 1),
         path   |-> IF ~hasNetloc THEN rest
                    ELSE IF j = 0 THEN <<>> ELSE SubSeq(after, j, Len(after))]

\* urlunparse((scheme, netloc, path, '', '', ''))
UrlUnparse(scheme, netloc, path) ==
    LET slashed == IF path # <<>> /\ Head(path) # "/" THEN <<"/">> \o path ELSE path
        withNetloc ==
            IF netloc # <<>> \/ (scheme # <<>> /\ ~StartsWith(path, <<"/", "/">>))
            THEN <<"/", "/">> \o netloc \o slashed
            ELSE path
    IN  IF scheme # <<>> THEN scheme \o <<":">> \o withNetloc ELSE withNetloc

RECURSIVE ResolveDots(_, _)
\* the loop of urljoin over the segments: ".." pops, "." is dropped
ResolveDots(segments, resolved) ==
    IF segments = <<>> THEN resolved
    ELSE IF Head(segments) = <<".", ".">>
         THEN ResolveDots(Tail(segments),
                          IF resolved = <<>> THEN resolved
                          ELSE SubSeq(resolved, 1, Len(resolved) - 1))
    ELSE IF Head(segments) = <<".">>
         THEN ResolveDots(Tail(segments), resolved)
    ELSE ResolveDots(Tail(segments), Append(resolved, Head(segments)))

\* segments[1:-1] = filter(None, segments[1:-1])
FilterMiddle(segments) ==
    IF Len(segments) <= 2 THEN segments
    ELSE <<segments[1]>>
         \o SelectSeq(SubSeq(segments, 2, Len(segments) - 1), LAMBDA x : x # <<>>)
         \o <<segments[Len(segments)]>>

urljoin(base, url) ==
    IF base = <<>> THEN url
    ELSE IF url = <<>> THEN base
    ELSE LET b == UrlParse(base, <<>>)
             u == UrlParse(url, b.scheme)
             parts == SplitOn(b.path, "/")
             base_parts == IF parts[Len(parts)] # <<>>
                           THEN SubSeq(parts, 1, Len(parts) - 1)
                           ELSE parts
             segments == IF StartsWith(u.path, <<"/">>)
                         THEN SplitOn(u.path, "/")
                         ELSE FilterMiddle(base_parts \o SplitOn(u.path, "/"))
             resolved == ResolveDots(segments, <<>>)
             resolved_path ==
                 IF segments[Len(segments)] \in {<<".">>, <<".", ".">>}
                 THEN Append(resolved, <<>>)
                 ELSE resolved
             joined == Join(resolved_path, "/")
         IN  IF u.scheme # b.scheme \/ u.scheme \notin UsesRelative THEN url
             ELSE IF u.netloc # <<>> THEN UrlUnparse(u.scheme, u.netloc, u.path)
             ELSE IF u.path = <<>> THEN UrlUnparse(u.scheme, b.netloc, b.path)
             ELSE UrlUnparse(u.scheme, b.netloc,
                             IF joined = <<>> THEN <<"/">> ELSE joined)

(***************************************************************************)
(* build_abs_url                                                           *)
(***************************************************************************)
\* raw.strip().strip("'").strip('"')
TrimRef(raw) == StripSet(StripSet(Strip(raw), {"'"}), {"\""})

\* a plausible slip: the base is used as it is, its trailing "/" not ensured
build_abs_url_bare_base(raw, base) ==
    IF raw = None \/ raw = <<>> THEN None
    ELSE IF StartsWith(TrimRef(raw), HttpPrefix) \/ StartsWith(TrimRef(raw), HttpsPrefix)
         THEN TrimRef(raw)
    ELSE urljoin(base, LStripSet(TrimRef(raw), {"/"}))

build_abs_url(raw, base) ==
    IF raw = None \/ raw = <<>> THEN None
    ELSE IF StartsWith(TrimRef(raw), HttpPrefix) \/ StartsWith(TrimRef(raw), HttpsPrefix)
         THEN TrimRef(raw)
    ELSE urljoin(IF base # <<>> /\ base[Len(base)] = "/" THEN base ELSE base \o <<"/">>,
                 LStripSet(TrimRef(raw), {"/"}))

(***************************************************************************)
(* build_abs_url called on its own.                                        *)
(***************************************************************************)
\* "https://host/base", the base of the specification's example
ExampleBase ==
    HttpsPrefix \o <<"h", "o", "s", "t", "/", "b", "a", "s", "e">>

\* "/docs/x.pdf"
ExampleRelative == <<"/", "d", "o", "c", "s", "/", "x", ".", "p", "d", "f">>

\* "https://other/y.pdf"
ExampleAbsolute ==
    HttpsPrefix \o <<"o", "t", "h", "e", "r", "/", "y", ".", "p", "d", "f">>

UrlBases == {ExampleBase, ExampleBase \o <<"/">>}

RefChunks ==
    {HttpsPrefix, HttpPrefix, <<"f", "t", "p", ":">>, <<"/">>, <<"a">>,
     <<".", ".">>, <<".">>}

\* what surrounds a reference in the markup: whitespace and quotes
RefWraps ==
    {<< <<>>, <<>> >>, << <<" ">>, <<" ">> >>, << <<"'">>, <<"'">> >>,
     << <<" ", "\"">>, <<"\"", " ">> >>, << <<"\"", "'">>, <<"'", "\"">> >>}

RefInputs ==
    {None}
    \cup {w[1] \o core \o w[2] :
            w \in RefWraps,
            core \in ChunkTexts(RefChunks, MaxRefChunks)
                     \cup {ExampleRelative, ExampleAbsolute}}

InitUrl ==
    /\ MainIdle
    /\ call = "url"
    /\ arg \in [raw : RefInputs, base : UrlBases]
    /\ ret = <<>>

BuildAbsUrl ==
    /\ call = "url"
    /\ ret' = build_abs_url(arg.raw, arg.base)
    /\ call' = "url_done"
    /\ UNCHANGED <<arg, mainVars>>

NextUrl == BuildAbsUrl

SpecUrl == InitUrl /\ [][NextUrl]_vars

IsAbsolute(ref) == StartsWith(ref, HttpPrefix) \/ StartsWith(ref, HttpsPrefix)

\* base and ref put together with exactly one "/" between them
OneSlashJoin(base, ref) ==
    RStripSet(base, {"/"}) \o <<"/">> \o LStripSet(ref, {"/"})

\* a relative path: no ":", and no segment that is empty (but the last, after
\* a trailing "/"), "." or ".."
PlainPath(p) ==
    /\ \A i \in 1..Len(p) : p[i] # ":"
    /\ \A i \in 1..Len(SplitOn(p, "/")) :
          /\ SplitOn(p, "/")[i] \notin {<<".">>, <<".", ".">>}
          /\ i < Len(SplitOn(p, "/")) => SplitOn(p, "/")[i] # <<>>

\* C7, as claimed: a null or empty ref gives null; a ref that begins with
\* http:// or https:// once whitespace and quotes are trimmed is returned so
\* trimmed; every other ref is joined to base with exactly one "/" between.
C7_AsClaimed ==
    call = "url_done" =>
        IF arg.raw = None \/ arg.raw = <<>> THEN ret = None
        ELSE LET t == StripSet(arg.raw, Whitespace \cup {"'", "\""})
             IN  IF IsAbsolute(t) THEN ret = t
                 ELSE ret = OneSlashJoin(arg.base, t)

\* C7, amended: a null or empty ref gives null; with whitespace, then single
\* quotes, then double quotes trimmed from both ends, a ref that begins with
\* http:// or https:// is returned so trimmed, and a ref that is a relative
\* path (no scheme, no empty, "." or ".." segment) is joined to base with
\* exactly one "/" between, whether or not base ends with "/" and whether or
\* not the ref begins with "/".
C7_Url ==
    call = "url_done" =>
        IF arg.raw = None \/ arg.raw = <<>> THEN ret = None
        ELSE LET t == StripSet(StripSet(StripSet(arg.raw, Whitespace), {"'"}), {"\""})
             IN  /\ IsAbsolute(t) => ret = t
                 /\ (~IsAbsolute(t) /\ PlainPath(LStripSet(t, {"/"}))) =>
                       ret = OneSlashJoin(arg.base, t)
                 /\ (arg.raw = ExampleRelative /\ arg.base = ExampleBase) =>
                       ret = ExampleBase \o ExampleRelative
                 /\ arg.raw = ExampleAbsolute => ret = ExampleAbsolute

\* the example of the specification: "/docs/x.pdf" against a base without a
\* trailing "/"
C7_Witness ==
    /\ call = "url_done"
    /\ arg.raw = ExampleRelative
    /\ arg.base = ExampleBase
    /\ ret = ExampleBase \o ExampleRelative

(***************************************************************************)
(* The markup of a catalogue response, as BeautifulSoup hands it to        *)
(* parse_list_items once script and style subtrees are removed.            *)
(*                                                                         *)
(* A document is a sequence of nodes in document order.  A node is a list  *)
(* item, [li |-> TRUE, tit, text, btns], or a button that stands outside   *)
(* every list item, [li |-> FALSE, tit, text, btns] with one button.       *)
(*   tit   the text of the item's first element of class "tit", None when  *)
(*         it has none;                                                    *)
(*   text  the text of the whole item;                                     *)
(*   btns  the onclick attributes of the item's buttons, in order.         *)
(* inside is the number of leading nodes that stand inside the element     *)
(* div.board_qusesion, and -1 when the document has no such element.  List *)
(* items are not nested.                                                   *)
(***************************************************************************)
GoDownLoadP == <<"g", "o", "D", "o", "w", "n", "L", "o", "a", "d", "P", "(">>
GoDownLoadH == <<"g", "o", "D", "o", "w", "n", "L", "o", "a", "d", "H", "(">>

Quotes == {"'", "\""}

\* the sentinel "je mok mi sang" (title unknown)
TitleSentinel == <<"je", "mok", "mi", "sang">>

\* where the match that opens at the "(" of position i closes: the positions k
\* of a closing quote, equal to the opening one, that a "," follows after
\* optional whitespace, with at least one character, none a newline, between
\* the two quotes
FirstArgCloses(s, i) ==
    LET afterParen == SubSeq(s, i + 1, Len(s))
        j == i + 1 + (Len(afterParen) - Len(LStripSet(afterParen, Whitespace)))
    IN  IF ~(i <= Len(s) /\ s[i] = "(" /\ j <= Len(s) /\ s[j] \in Quotes) THEN {}
        ELSE {k \in (j + 2)..Len(s) :
                 /\ s[k] = s[j]
                 /\ \A h \in (j + 1)..(k - 1) : s[h] # "\n"
                 /\ StartsWith(LStripSet(SubSeq(s, k + 1, Len(s)),
                                         Whitespace), <<",">>)}

\* the opening quote of the match that opens at position i
FirstArgOpens(s, i) ==
    LET afterParen == SubSeq(s, i + 1, Len(s))
    IN  i + 1 + (Len(afterParen) - Len(LStripSet(afterParen, Whitespace)))

Max(S) == CHOOSE m \in S : \A n \in S : m >= n

\* a plausible slip: .+ for .+?, the longest match instead of the shortest
first_arg_greedy(onclick) ==
    LET opens == {i \in 1..Len(onclick) : FirstArgCloses(onclick, i) # {}}
    IN  IF opens = {} THEN None
        ELSE SubSeq(onclick, FirstArgOpens(onclick, Min(opens)) + 1,
                    Max(FirstArgCloses(onclick, Min(opens))) - 1)

\* re.search(r"\(\s*(['\"])(.+?)\1\s*,", onclick): group 2 of the leftmost
\* match, the shortest one there (.+? is lazy), None without a match
first_arg(onclick) ==
    LET opens == {i \in 1..Len(onclick) : FirstArgCloses(onclick, i) # {}}
    IN  IF opens = {} THEN None
        ELSE SubSeq(onclick, FirstArgOpens(onclick, Min(opens)) + 1,
                    Min(FirstArgCloses(onclick, Min(opens))) - 1)

\* Python's truth of an optional text: neither None nor empty
Truthy(text) == text # None /\ text # <<>>

\* raw.split("  ")[0]: the text before the first two adjacent spaces
BeforeDoubleSpace(raw) ==
    LET at == {i \in 1..(Len(raw) - 1) : raw[i] = " " /\ raw[i + 1] = " "}
    IN  IF at = {} THEN raw ELSE SubSeq(raw, 1, Min(at) - 1)

\* the nodes the selectors search: those of the container when the document
\* has one, else those of the whole document
Container(doc) ==
    IF doc.inside >= 0 THEN SubSeq(doc.nodes, 1, doc.inside) ELSE doc.nodes

\* the buttons of a node whose onclick begins with prefix
Buttons(node, prefix) ==
    SelectSeq(node.btns, LAMBDA onclick : StartsWith(onclick, prefix))

\* li.select_one('button[onclick^="goDownLoadH("]') and its first argument
SolutionPath(node) ==
    IF Buttons(node, GoDownLoadH) = <<>> THEN None
    ELSE first_arg(Buttons(node, GoDownLoadH)[1])

\* the title of a list item in the first pass
ItemTitle(node) ==
    IF node.tit # None THEN sanitize_filename(node.tit)
    ELSE sanitize_filename(IF node.text # <<>> THEN BeforeDoubleSpace(node.text)
                           ELSE TitleSentinel)

\* a plausible slip: the test "if prob_path or sol_path" left out
KeepAll(records) == records

\* if prob_path or sol_path: items.append(...)
KeepWithReference(records) ==
    SelectSeq(records, LAMBDA r : Truthy(r.prob) \/ Truthy(r.sol))

RECURSIVE FirstPass(_)
\* the loop over the problem buttons that stand in a list item: one
\* candidate record for each, in document order
FirstPass(nodes) ==
    IF nodes = <<>> THEN <<>>
    ELSE LET node == Head(nodes)
             pbtns == IF node.li THEN Buttons(node, GoDownLoadP) ELSE <<>>
         IN  [n \in 1..Len(pbtns) |->
                 [title |-> ItemTitle(node),
                  prob  |-> first_arg(pbtns[n]),
                  sol   |-> SolutionPath(node)]]
             \o FirstPass(Tail(nodes))

RECURSIVE SecondPass(_)
\* the loop over the list items that have a title element
SecondPass(nodes) ==
    IF nodes = <<>> THEN <<>>
    ELSE LET node == Head(nodes)
             pbtns == Buttons(node, GoDownLoadP)
         IN  (IF node.li /\ node.tit # None
              THEN <<[title |-> sanitize_filename(node.tit),
                      prob  |-> IF pbtns = <<>> THEN None ELSE first_arg(pbtns[1]),
                      sol   |-> SolutionPath(node)]>>
              ELSE <<>>)
             \o SecondPass(Tail(nodes))

parse_list_items(doc) ==
    LET items1 == KeepWithReference(FirstPass(Container(doc)))
    IN  IF items1 # <<>> THEN items1
        ELSE KeepWithReference(SecondPass(Container(doc)))

(***************************************************************************)
(* parse_list_items called on its own, on the documents of at most         *)
(* MaxNodes nodes built from the list items and buttons below.             *)
(***************************************************************************)
\* goDownLoadP('p','x',1)
ProblemTwoQuoted ==
    GoDownLoadP \o <<"'", "p", "'", ",", "'", "x", "'", ",", "1", ")">>
\* goDownLoadP( "q" ,1)
ProblemSpaced == GoDownLoadP \o <<" ", "\"", "q", "\"", " ", ",", "1", ")">>
\* goDownLoadP('p')
ProblemOneArg == GoDownLoadP \o <<"'", "p", "'", ")">>
\* goDownLoadP('','x',1)
ProblemEmptyArg == GoDownLoadP \o <<"'", "'", ",", "'", "x", "'", ",", "1", ")">>
\* goDownLoadP(p,1)
ProblemBareArg == GoDownLoadP \o <<"p", ",", "1", ")">>
\* goDownLoadH('s',1)
SolutionQuoted == GoDownLoadH \o <<"'", "s", "'", ",", "1", ")">>
\* goDownLoadH("t",1)
SolutionDouble == GoDownLoadH \o <<"\"", "t", "\"", ",", "1", ")">>
\* goDownLoadH('s')
SolutionOneArg == GoDownLoadH \o <<"'", "s", "'", ")">>
\* go('v',1): a button of another action
OtherAction == <<"g", "o", "(", "'", "v", "'", ",", "1", ")">>

\* "2024<nyeon> / <mul ri hak RN1>": a title that sanitising changes
MarkupTitle == <<"2", "0", "2", "4", "nyeon", " ", "/", " ">> \o Physics1

\* the title once sanitised
CleanTitle == <<"2", "0", "2", "4", "nyeon", " ">> \o Physics1

\* "t  b": the text of an item without title element
MarkupText == <<"t", " ", " ", "b">>

ButtonLists ==
    {<<>>,
     <<ProblemTwoQuoted>>,
     <<ProblemTwoQuoted, SolutionQuoted>>,
     <<SolutionQuoted, ProblemSpaced>>,
     <<SolutionQuoted>>,
     <<SolutionDouble>>,
     <<ProblemOneArg, SolutionQuoted>>,
     <<ProblemOneArg, SolutionOneArg>>,
     <<ProblemTwoQuoted, SolutionOneArg>>,
     <<ProblemEmptyArg, SolutionQuoted>>,
     <<ProblemBareArg>>,
     <<ProblemTwoQuoted, ProblemSpaced, SolutionQuoted>>,
     <<OtherAction, ProblemSpaced, SolutionDouble>>,
     <<ProblemSpaced, SolutionOneArg, SolutionDouble>>}

MarkupNodes ==
    {[li |-> TRUE, tit |-> MarkupTitle, text |-> MarkupTitle, btns |-> b] :
        b \in ButtonLists}
    \cup {[li |-> TRUE, tit |-> None, text |-> MarkupText, btns |-> b] :
            b \in {<<ProblemTwoQuoted, SolutionQuoted>>, <<SolutionQuoted>>,
                   <<ProblemOneArg, SolutionOneArg>>, <<ProblemSpaced>>}}
    \cup {[li |-> TRUE, tit |-> None, text |-> <<>>,
           btns |-> <<ProblemTwoQuoted, SolutionQuoted>>]}
    \cup {[li |-> FALSE, tit |-> None, text |-> <<>>, btns |-> <<b>>] :
            b \in {ProblemTwoQuoted, SolutionQuoted}}

Documents(n) ==
    UNION {[nodes : [1..k -> MarkupNodes], inside : -1..k] : k \in 0..n}

InitParse ==
    /\ MainIdle
    /\ call = "parse"
    /\ arg \in Documents(MaxNodes)
    /\ ret = <<>>

ParseListItems ==
    /\ call = "parse"
    /\ ret' = parse_list_items(arg)
    /\ call' = "parse_done"
    /\ UNCHANGED <<arg, mainVars>>

NextParse == ParseListItems

SpecParse == InitParse /\ [][NextParse]_vars

\* a reference can be extracted from the list item: from one of its problem
\* buttons or from its solution button
HasReference(node) ==
    /\ node.li
    /\ \/ \E n \in 1..Len(Buttons(node, GoDownLoadP)) :
             Truthy(first_arg(Buttons(node, GoDownLoadP)[n]))
       \/ Truthy(SolutionPath(node))

\* the document without the nodes of the container that satisfy Drop
Without(doc, Drop(_)) ==
    [nodes  |-> SelectSeq(doc.nodes, LAMBDA node : ~Drop(node)),
     inside |-> IF doc.inside < 0 THEN doc.inside
                ELSE Len(SelectSeq(SubSeq(doc.nodes, 1, doc.inside),
                                   LAMBDA node : ~Drop(node)))]

NoReference(node) == ~HasReference(node)

\* C4: every record parse_list_items returns, from either pass, has a problem
\* or a solution reference that is neither null nor empty, and the list items
\* from which no reference can be extracted contribute nothing: the result
\* is that of the document without them.
C4_Reference ==
    call = "parse_done" =>
        /\ \A n \in 1..Len(ret) :
              \/ (ret[n].prob # None /\ ret[n].prob # <<>>)
              \/ (ret[n].sol # None /\ ret[n].sol # <<>>)
        /\ ret = parse_list_items(Without(arg, NoReference))
        /\ (\A n \in 1..Len(Container(arg)) : ~HasReference(Container(arg)[n]))
              => ret = <<>>

\* the first pass found nothing (the one problem button has no second
\* argument) and the second pass made a record of the item that has only a
\* solution button
C4_Witness ==
    /\ call = "parse_done"
    /\ arg.inside = -1
    /\ Len(arg.nodes) = 2
    /\ arg.nodes[1].btns = <<ProblemOneArg, SolutionOneArg>>
    /\ arg.nodes[2].btns = <<SolutionQuoted>>
    /\ arg.nodes[2].tit = MarkupTitle
    /\ ret = <<[title |-> CleanTitle, prob |-> None, sol |-> <<"s">>]>>

\* the first quoted argument of an action: what stands between the quote that
\* opens the argument list of the call and the next quote of its kind; None
\* when the first argument is not quoted
FirstQuoted(onclick, prefix) ==
    LET rest == LStripSet(SubSeq(onclick, Len(prefix) + 1, Len(onclick)), Whitespace)
        close == {k \in 2..Len(rest) : rest[k] = rest[1]}
    IN  IF rest = <<>> \/ rest[1] \notin Quotes \/ close = {} THEN None
        ELSE SubSeq(rest, 2, Min(close) - 1)

\* what follows the first quoted argument of an action
AfterFirstQuoted(onclick, prefix) ==
    LET rest == LStripSet(SubSeq(onclick, Len(prefix) + 1, Len(onclick)), Whitespace)
        close == {k \in 2..Len(rest) : rest[k] = rest[1]}
    IN  SubSeq(rest, Min(close) + 1, Len(rest))

\* the list item has one problem action and one solution action, each with a
\* quoted first argument
HasBothActions(node) ==
    /\ node.li
    /\ Len(Buttons(node, GoDownLoadP)) = 1
    /\ Len(Buttons(node, GoDownLoadH)) = 1
    /\ FirstQuoted(Buttons(node, GoDownLoadP)[1], GoDownLoadP) # None
    /\ FirstQuoted(Buttons(node, GoDownLoadH)[1], GoDownLoadH) # None

\* the first quoted argument of both actions is not empty and a "," follows
\* it, after optional whitespace
HasFurtherArguments(node) ==
    \A prefix \in {GoDownLoadP, GoDownLoadH} :
        /\ FirstQuoted(Buttons(node, prefix)[1], prefix) # <<>>
        /\ StartsWith(LStripSet(AfterFirstQuoted(Buttons(node, prefix)[1], prefix),
                                Whitespace), <<",">>)

\* one record for each list item, in document order, with the first quoted
\* arguments of its two actions
OneRecordEach(nodes, records) ==
    /\ Len(records) = Len(nodes)
    /\ \A n \in 1..Len(nodes) :
          n <= Len(records) =>
              /\ records[n].prob = FirstQuoted(Buttons(nodes[n], GoDownLoadP)[1], GoDownLoadP)
              /\ records[n].sol = FirstQuoted(Buttons(nodes[n], GoDownLoadH)[1], GoDownLoadH)

UpperLetters ==
    {"A", "B", "C", "D", "E", "F", "G", "H", "I", "J", "K", "L", "M", "N", "O",
     "P", "Q", "R", "S", "T", "U", "V", "W", "X", "Y", "Z"}

\* the class [A-Za-z0-9]
Alnum == Letters \cup UpperLetters \cup Digit

\* ".pdf", the default extension
DefaultExt == <<".", "p", "d", "f">>

\* the length of the run of characters of the class that follows position i
AlnumRun(u, i) ==
    Len(u) - i - Len(LStripSet(SubSeq(u, i + 1, Len(u)), Alnum))

\* \.([A-Za-z0-9]{1,5})(?:\?|#|$) matches at i: a "." at i, then one to five
\* characters of the class, then "?", "#" or the end (also before a last
\* newline)
ExtMatchesAt(u, i) ==
    LET after == i + AlnumRun(u, i) + 1
    IN  /\ u[i] = "."
        /\ AlnumRun(u, i) \in 1..5
        /\ \/ after > Len(u)
           \/ u[after] \in {"?", "#"}
           \/ (after = Len(u) /\ u[after] = "\n")

ext_from_url(u, default) ==
    IF u = None \/ u = <<>> THEN default
    ELSE LET at == {i \in 1..Len(u) : ExtMatchesAt(u, i)}
         IN  IF at = {} THEN default
             ELSE SubSeq(u, Min(at), Min(at) + AlnumRun(u, Min(at)))

(***************************************************************************)
(* main(): one run of the downloader against a scripted backend.           *)
(*                                                                         *)
(* A response of the backend is [status, marker, doc]: the HTTP status,    *)
(* whether its text holds "<li", and the document its text parses to.      *)
(* backend[p] is the response to a request with pageIndex = p.             *)
(***************************************************************************)
\* "2024<nyeon> <mul ri hak RN1>" and "2023<nyeon> <hwa hak>"
TitleA == <<"2", "0", "2", "4", "nyeon", " ">> \o Physics1
TitleB == <<"2", "0", "2", "3", "nyeon", " ", "hwa", "hak">>

\* goDownLoadP('/a.hwp',1) and goDownLoadH('b', 1)
ProblemButton == GoDownLoadP \o <<"'", "/", "a", ".", "h", "w", "p", "'", ",", "1", ")">>
SolutionButton == GoDownLoadH \o <<"'", "b", "'", ",", " ", "1", ")">>

Item(title, buttons) ==
    [li |-> TRUE, tit |-> title, text |-> title, btns |-> buttons]

Page(nodes) ==
    [status |-> 200, marker |-> TRUE, doc |-> [nodes |-> nodes, inside |-> -1]]

\* two records, each with both references
PageBoth ==
    Page(<<Item(TitleA, <<ProblemButton, SolutionButton>>),
           Item(TitleB, <<ProblemButton, SolutionButton>>)>>)

\* a record without solution, then one with both references
PageProblemFirst ==
    Page(<<Item(TitleB, <<ProblemButton>>),
           Item(TitleA, <<ProblemButton, SolutionButton>>)>>)

\* one record without problem (the second pass finds it)
PageSolutionOnly == Page(<<Item(TitleA, <<SolutionButton>>)>>)

\* a list item, but none with a reference
PageNoRecords == Page(<<Item(TitleA, <<>>)>>)

\* no "<li" in the text
PageNoMarker ==
    [status |-> 200, marker |-> FALSE, doc |-> [nodes |-> <<>>, inside |-> -1]]

\* the backend answers with a server error
PageError ==
    [status |-> 500, marker |-> FALSE, doc |-> [nodes |-> <<>>, inside |-> -1]]

RecordPages == {PageBoth, PageProblemFirst, PageSolutionOnly}

EndPages == {PageNoRecords, PageNoMarker, PageError}

\* the backends: some pages with records, then a page without, and nothing
\* but pages without the marker after it
Backends ==
    {b \in [1..MaxPages -> RecordPages \cup EndPages] :
        \A p \in 1..MaxPages : \A q \in (p + 1)..MaxPages :
            b[p] \in EndPages => b[q] = PageNoMarker}

\* what the loop derives for a record before the downloads; None before
NoRecord ==
    [title |-> None, prob_url |-> None, sol_url |-> None, target_dir |-> <<None>>]

Init ==
    /\ pc = "post"
    /\ backend \in Backends
    /\ args \in [pageIndex : 1..MaxPages, base : {ExampleBase},
                 out : {<<"d", "o", "w", "n", "l", "o", "a", "d", "s">>}]
    /\ html = PageNoMarker
    /\ items = <<>>
    /\ idx = 0
    /\ cur = NoRecord
    /\ fetched = <<>>
    /\ attempts = <<>>
    /\ log = <<>>
    /\ call = "main"
    /\ arg = <<>>
    /\ ret = <<>>

\* a plausible slip: always the first page
FirstPage(a) == 1

\* the page the request asks for: payload["pageIndex"] = args.pageIndex
RequestedPage(a) == a.pageIndex

\* r = session.post(...); r.raise_for_status(); html = r.text
Post ==
    /\ pc = "post"
    /\ fetched' = Append(fetched, RequestedPage(args))
    /\ IF backend[RequestedPage(args)].status = 200
       THEN /\ html' = backend[RequestedPage(args)]
            /\ pc' = "marker"
       ELSE /\ html' = html
            /\ pc' = "crashed"
    /\ UNCHANGED <<backend, args, items, idx, cur, attempts, log, call, arg, ret>>

\* if "<li" not in html: print(...); return
CheckMarker ==
    /\ pc = "marker"
    /\ IF html.marker
       THEN pc' = "parse" /\ log' = log
       ELSE pc' = "returned" /\ log' = Append(log, <<"no list", <<>>>>)
    /\ UNCHANGED <<backend, args, html, items, idx, cur, fetched, attempts, call, arg, ret>>

\* a plausible slip: the test "if not items" left out
NeverEmpty(records) == FALSE

\* not items
NoItems(records) == records = <<>>

\* items = parse_list_items(html); if not items: print(...); return
Parse ==
    /\ pc = "parse"
    /\ items' = parse_list_items(html.doc)
    /\ IF NoItems(items')
       THEN pc' = "returned" /\ log' = Append(log, <<"no items", <<>>>>) /\ idx' = idx
       ELSE pc' = "loop" /\ log' = log /\ idx' = 1
    /\ UNCHANGED <<backend, args, html, cur, fetched, attempts, call, arg, ret>>

\* the body of the loop before its try: year, subject_name, prob_url, sol_url
\* and target_dir = out_root / year / subject_name of one record
Derive(record) ==
    [title      |-> record.title,
     prob_url   |-> IF Truthy(record.prob) THEN build_abs_url(record.prob, args.base)
                    ELSE None,
     sol_url    |-> IF Truthy(record.sol) THEN build_abs_url(record.sol, args.base)
                    ELSE None,
     target_dir |-> <<args.out, extract_year(record.title), subject_name(record.title)>>]

\* target_dir / prob_name, prob_name = f"{base_name}{prob_ext}"
prob_path(c) ==
    Append(c.target_dir, sanitize_filename(c.title) \o ext_from_url(c.prob_url, DefaultExt))

\* target_dir / sol_name, sol_name = f"{base_name}_<hae>{sol_ext}"
sol_path(c) ==
    Append(c.target_dir,
           sanitize_filename(c.title) \o <<"_", "hae">> \o ext_from_url(c.sol_url, DefaultExt))

\* for title, prob_path, sol_path in items: ... ; print("done") after the loop
NextRecord ==
    /\ pc = "loop"
    /\ IF idx <= Len(items)
       THEN pc' = "problem" /\ cur' = Derive(items[idx]) /\ log' = log
       ELSE pc' = "finished" /\ cur' = cur /\ log' = Append(log, <<"done", <<>>>>)
    /\ UNCHANGED <<backend, args, html, items, idx, fetched, attempts, call, arg, ret>>

\* what download_file may do: write the file, raise requests.HTTPError
\* (raise_for_status), or raise another exception (transport, file system)
Outcomes == {"ok", "http", "error"}

\* a plausible slip: only "except requests.HTTPError", no "except Exception"
CaughtHttpOnly(outcome) == outcome = "http"

\* the handlers of the try of the loop body catch both kinds of failure
Caught(outcome) == outcome \in {"http", "error"}

\* where a failed download leaves the loop: at the next record when a handler
\* catches the exception, else out of main()
AfterFailure(outcome) == IF Caught(outcome) THEN "loop" ELSE "crashed"

\* the line a handler prints
FailureLine(outcome, title) ==
    IF outcome = "http" THEN <<"HTTP error", title>> ELSE <<"download failed", title>>

\* if prob_url: download_file(...) else: print(...)
DownloadProblem ==
    /\ pc = "problem"
    /\ IF cur.prob_url # None
       THEN \E outcome \in Outcomes :
               /\ attempts' = Append(attempts,
                      [record |-> idx, kind |-> "problem", url |-> cur.prob_url,
                       path |-> prob_path(cur), outcome |-> outcome])
               /\ IF outcome = "ok"
                  THEN pc' = "solution" /\ idx' = idx /\ log' = log
                  ELSE /\ pc' = AfterFailure(outcome)
                       /\ idx' = idx + 1
                       /\ log' = IF Caught(outcome)
                                 THEN Append(log, FailureLine(outcome, cur.title))
                                 ELSE log
       ELSE /\ attempts' = attempts
            /\ pc' = "solution"
            /\ idx' = idx
            /\ log' = Append(log, <<"no problem url", cur.title>>)
    /\ UNCHANGED <<backend, args, html, items, cur, fetched, call, arg, ret>>

\* if sol_url: download_file(...) else: print(...)
DownloadSolution ==
    /\ pc = "solution"
    /\ IF cur.sol_url # None
       THEN \E outcome \in Outcomes :
               /\ attempts' = Append(attempts,
                      [record |-> idx, kind |-> "solution", url |-> cur.sol_url,
                       path |-> sol_path(cur), outcome |-> outcome])
               /\ pc' = IF outcome = "ok" THEN "loop" ELSE AfterFailure(outcome)
               /\ log' = IF Caught(outcome)
                         THEN Append(log, FailureLine(outcome, cur.title))
                         ELSE log
       ELSE /\ attempts' = attempts
            /\ pc' = "loop"
            /\ log' = Append(log, <<"no solution url", cur.title>>)
    /\ idx' = idx + 1
    /\ UNCHANGED <<backend, args, html, items, cur, fetched, call, arg, ret>>

Next ==
    \/ Post
    \/ CheckMarker
    \/ Parse
    \/ NextRecord
    \/ DownloadProblem
    \/ DownloadSolution

Spec == Init /\ [][Next]_vars

(***************************************************************************)
(* Properties of main()                                                    *)
(***************************************************************************)
\* the run is in the download loop or has left it after the last record
InDownloadStage == pc \in {"loop", "problem", "solution", "finished"}

\* the download of the kind of record r has been attempted
Attempted(r, kind) ==
    \E k \in 1..Len(attempts) : attempts[k].record = r /\ attempts[k].kind = kind

\* the download of the kind of record r has been attempted and has failed
Failed(r, kind) ==
    \E k \in 1..Len(attempts) :
        /\ attempts[k].record = r
        /\ attempts[k].kind = kind
        /\ attempts[k].outcome # "ok"

\* no download of a problem resource has failed
OnlySolutionFailures == \A r \in 1..Len(items) : ~Failed(r, "problem")

\* every reference of every record has been attempted
AllAttempted ==
    \A r \in 1..Len(items) :
        /\ Truthy(items[r].prob) => Attempted(r, "problem")
        /\ Truthy(items[r].sol) => Attempted(r, "solution")

\* the solution of a record is attempted after the problem of that record,
\* and in a run whose only failures are failures of solutions the loop
\* reaches its end with every reference of every record attempted
SolutionFailureIsolated ==
    /\ \A k \in 1..Len(attempts) :
          (attempts[k].kind = "solution" /\ Truthy(items[attempts[k].record].prob))
          => \E j \in 1..(k - 1) :
                /\ attempts[j].record = attempts[k].record
                /\ attempts[j].kind = "problem"
    /\ (InDownloadStage /\ OnlySolutionFailures) =>
          \A r \in 1..(idx - 1) :
              /\ Truthy(items[r].prob) => Attempted(r, "problem")
              /\ Truthy(items[r].sol) => Attempted(r, "solution")
    /\ (items # <<>> /\ OnlySolutionFailures) => pc # "crashed"
    /\ (pc = "finished" /\ OnlySolutionFailures) => AllAttempted

\* C1: a failure of the download of the solution of record R prevents neither
\* the attempt of the problem of R (it came before) nor the attempts of the
\* records after R: whatever the outcome of the download of a solution, the
\* loop goes on with the next record, and a run in which only solutions fail
\* attempts every reference of every record.
C1_SolutionFailure ==
    /\ []SolutionFailureIsolated
    /\ [][pc = "solution" => (pc' = "loop" /\ idx' = idx + 1 /\ items' = items)]_vars

\* the solution of the first record failed with an exception other than an
\* HTTP error, and both resources of the second record were attempted
C1_Witness ==
    /\ pc = "finished"
    /\ Len(items) = 2
    /\ \E k \in 1..Len(attempts) :
          /\ attempts[k].record = 1
          /\ attempts[k].kind = "solution"
          /\ attempts[k].outcome = "error"
    /\ Attempted(1, "problem")
    /\ Attempted(2, "problem")
    /\ Attempted(2, "solution")

\* C2: failures are isolated per resource: for a record with both references,
\* a failure of the download of either resource, the problem included, does
\* not prevent the attempt of the other resource of the record.
C2_AsClaimed ==
    pc = "finished" =>
        \A r \in 1..Len(items) :
            (Truthy(items[r].prob) /\ Truthy(items[r].sol))
            => (Attempted(r, "problem") /\ Attempted(r, "solution"))

\* the pages of a backend of three pages with records and then a page
\* without the list marker
ThreePagesThenNoMarker ==
    /\ \A p \in 1..3 : backend[p] \in RecordPages
    /\ backend[4] = PageNoMarker

RECURSIVE RecordsOfPages(_)
\* the records of the pages 1..n, in page order
RecordsOfPages(n) ==
    IF n = 0 THEN <<>>
    ELSE RecordsOfPages(n - 1) \o parse_list_items(backend[n].doc)

SinglePage ==
    /\ Len(fetched) <= 1
    /\ pc # "post" => fetched = <<args.pageIndex>>
    /\ InDownloadStage =>
          /\ items = parse_list_items(backend[args.pageIndex].doc)
          /\ idx \in 1..(Len(items) + 1)
    /\ \A k \in 1..Len(attempts) :
          /\ attempts[k].record \in 1..Len(items)
          /\ attempts[k].url =
                build_abs_url(IF attempts[k].kind = "problem"
                              THEN items[attempts[k].record].prob
                              ELSE items[attempts[k].record].sol, args.base)
    /\ pc = "finished" =>
          /\ idx = Len(items) + 1
          /\ \A r \in 1..Len(items) :
                Truthy(items[r].prob) => Attempted(r, "problem")

Decided == pc \in {"returned", "loop", "problem", "solution", "finished"}

\* the download stage is entered exactly when the response holds the marker
\* and has records; otherwise main() returns, with no download attempted
StageDecision ==
    /\ Decided =>
          (InDownloadStage <=> (html.marker /\ parse_list_items(html.doc) # <<>>))
    /\ (Decided /\ ~(html.marker /\ parse_list_items(html.doc) # <<>>)) =>
          (pc = "returned" /\ attempts = <<>>)
    /\ pc = "returned" =>
          /\ attempts = <<>>
          /\ log \in {<<<<"no list", <<>>>>>>, <<<<"no items", <<>>>>>>}
    /\ attempts # <<>> => InDownloadStage

\* C6: the run enters the download stage if and only if the response of the
\* catalogue holds the list marker and extraction yields at least one record;
\* without the marker, or with zero records, main() returns normally and no
\* download is attempted.
C6_Stage ==
    /\ []StageDecision
    /\ [][/\ pc = "marker" => pc' = (IF html.marker THEN "parse" ELSE "returned")
          /\ pc = "parse" =>
                pc' = (IF parse_list_items(html.doc) # <<>> THEN "loop" ELSE "returned")
         ]_vars

\* the response holds the marker but no record: returned, nothing attempted
C6_Witness ==
    /\ pc = "returned"
    /\ html.marker
    /\ html.doc.nodes # <<>>
    /\ parse_list_items(html.doc) = <<>>
    /\ attempts = <<>>
    /\ log = <<<<"no items", <<>>>>>>

====
